---- MODULE Spec2Model ----
(***************************************************************************)
(* Model of src/app.py: the Flask logo generator with its admission flag   *)
(* (is_generating), FIFO request_queue, processing_lock and the            *)
(* request_results map.                                                    *)
(*                                                                         *)
(* Threads: one generate_logo handler per submitted request, the           *)
(* process_next_in_queue threads started with threading.Thread, and the    *)
(* check_status handlers.  Every `with processing_lock:` block is two      *)
(* steps: the acquisition, and the body together with the release.  The    *)
(* thread-local code that leads to a `with` is part of the step that       *)
(* acquires the lock.                                                      *)
(*                                                                         *)
(* generate_logo is modelled with `global is_generating` in force for its *)
(* whole body: the declarations at lines 192 and 220 come after the first  *)
(* use at line 182, which CPython 3.6 and later reject at compile time;    *)
(* the model takes them as heading the function, as in                     *)
(* process_next_in_queue (line 114).                                       *)
(*                                                                         *)
(* Spec has submissions and dispatching only; SpecPoll adds the clients    *)
(* that poll /check-status, for fewer and only well-formed submissions.    *)
(***************************************************************************)
EXTENDS Integers, Sequences, FiniteSets, TLC

(* ------------------------------ bounds --------------------------------- *)
MaxReq == 4
MaxActive == 2
NumPollers == 2
MaxPolls == 3
MaxPollReq == 2

(* ------------------------- program constants --------------------------- *)
num_images == 4

Reqs == 1..MaxReq
\* every worker thread is started by a context that released the flag, and
\* every release follows a claim; a request is claimed at most once
MaxWorkers == MaxReq
Workers == 1..MaxWorkers
Pollers == 1..NumPollers
\* a request id that generate_logo never hands out
UnknownId == MaxReq + 1
PollReqs == 1..MaxPollReq
PollIds == {UnknownId} \cup PollReqs

PyNone == "<None>"
SloganValues == {"Best", PyNone}

\* request.get_json(): a JSON object, or no object at all
NoData == [isdict |-> FALSE, businessname |-> PyNone, industry |-> PyNone, slogan |-> PyNone]
Body(b, i, s) == [isdict |-> TRUE, businessname |-> b, industry |-> i, slogan |-> s]
ValidBodies == {Body("Acme", "Tech", s) : s \in SloganValues}
JsonBodies ==
  {NoData, Body(PyNone, "Tech", "Best"), Body("Acme", PyNone, "Best")} \cup ValidBodies

\* Python truthiness of a field value
Truthy(v) == v \notin {PyNone, ""}

\* data.get("slogan", "").strip() raises AttributeError unless it is a str
HasStrip(v) == v # PyNone

FieldsMissing_NameOnly(data) == ~Truthy(data.businessname)

\* line 175
FieldsMissing(data) == ~Truthy(data.businessname) \/ ~Truthy(data.industry)

(* --------------------------- the provider ------------------------------ *)
\* one entry per iteration of the loop of generate_images
\* "image": a prediction with bytesBase64Encoded; "nopred": none in the
\* response; "reqerr": requests.post or raise_for_status raised
ProviderRuns ==
  { [i \in 1..num_images |-> "image"],
    [i \in 1..num_images |-> IF i = 2 THEN "nopred" ELSE "reqerr"] }

RECURSIVE CountImages(_, _)
CountImages(run, i) ==
  IF i = 0 THEN 0
  ELSE CountImages(run, i - 1) + (IF run[i] = "image" THEN 1 ELSE 0)

\* generate_images: the number of urls appended; exceptions are swallowed
generate_images(run) == CountImages(run, num_images)

(* ------------------------------ results -------------------------------- *)
NoResult == [kind |-> "none", n |-> 0, msg |-> ""]
ErrorResult(m) == [kind |-> "error", n |-> 0, msg |-> m]
ImagesResult(k) == [kind |-> "images", n |-> k, msg |-> ""]

NoResponse == [code |-> 0, body |-> NoResult, request_id |-> 0]
Response(c, b, id) == [code |-> c, body |-> b, request_id |-> id]

ImmediateResult_NoEmptyCheck(urls) == ImagesResult(urls)

\* lines 205-212 (the handler has a request context, host_url is available)
ImmediateResult(urls) ==
  IF urls = 0 THEN ErrorResult("Failed to generate images.")
  ELSE ImagesResult(urls)

ImmediateStatus(urls) == IF urls = 0 THEN 500 ELSE 200

\* lines 141-149: the thread started with threading.Thread has no request
\* context, so request.host_url at line 145 raises RuntimeError, which the
\* except clause at line 147 turns into an error result
WorkerHasRequestContext == FALSE

QueuedResult(urls) ==
  IF urls = 0 THEN ErrorResult("Failed to generate images for queued request.")
  ELSE IF WorkerHasRequestContext THEN ImagesResult(urls)
  ELSE ErrorResult("Server error during queued processing")

(* ------------------------------ state ---------------------------------- *)
VARIABLES
  request_queue,     \* Seq of <<request_id, data>>
  is_generating,
  request_results,   \* function: request_id -> result
  processing_lock,   \* the thread holding it, or Free
  nextReq,           \* requests submitted so far
  hpc, hdata, hresp, \* generate_logo handlers
  nWorkers, wpc, wjob, wresult,   \* process_next_in_queue threads
  ppc, pid, presp, polls,         \* check_status handlers
  claimants,         \* threads that set is_generating and did not reset it
  log,               \* history of <<"put" | "get" | "store", request_id>>
  provided,          \* request_id -> who called generate_images, and the urls it returned
  admitted,          \* request_id -> value of is_generating read at line 182
  delivered,         \* request_id -> number of check_status calls that got the result
  pstale             \* poller -> the id polled was already consumed

shared == <<request_queue, is_generating, request_results>>
hvars == <<nextReq, hpc, hdata, hresp>>
wvars == <<nWorkers, wpc, wjob, wresult>>
pvars == <<ppc, pid, presp, polls, pstale>>
hist == <<claimants, log, provided, admitted, delivered>>
vars == <<shared, processing_lock, hvars, wvars, pvars, hist>>

Free == <<"none", 0>>
H(r) == <<"h", r>>
W(w) == <<"w", w>>
P(p) == <<"p", p>>

Range(s) == {s[i] : i \in 1..Len(s)}

NotProvided == [by |-> "none", urls |-> 0]
Provided(who, k) == [by |-> who, urls |-> k]

\* the request ids of one kind of event, in the order they happened
RECURSIVE Events(_, _)
Events(l, ev) ==
  IF l = <<>> THEN <<>>
  ELSE IF Head(l)[1] = ev THEN <<Head(l)[2]>> \o Events(Tail(l), ev)
  ELSE Events(Tail(l), ev)

enqOrder == Events(log, "put")
deqOrder == Events(log, "get")
recOrder == Events(log, "store")

\* queue.Queue
QueueEmpty == Len(request_queue) = 0
QueuePut_Front(item) == <<item>> \o request_queue

QueuePut_Twice(item) == Append(Append(request_queue, item), item)

\* put(): at the tail
QueuePut(item) == Append(request_queue, item)

QueueGet_Lifo ==
  [item |-> request_queue[Len(request_queue)],
   rest |-> SubSeq(request_queue, 1, Len(request_queue) - 1)]

QueueGet_Peek == [item |-> Head(request_queue), rest |-> request_queue]

\* get(): the oldest item, and what stays in the queue
QueueGet == [item |-> Head(request_queue), rest |-> Tail(request_queue)]

\* dict operations on request_results
DictGet(d, k) == IF k \in DOMAIN d THEN d[k] ELSE NoResult
DictSet(d, k, v) == [i \in (DOMAIN d) \cup {k} |-> IF i = k THEN v ELSE d[i]]
DictDel_Keep(d, k) == d

DictDel(d, k) == [i \in (DOMAIN d) \ {k} |-> d[i]]

Init ==
  /\ request_queue = <<>>
  /\ is_generating = FALSE
  /\ request_results = <<>>
  /\ processing_lock = Free
  /\ nextReq = 0
  /\ hpc = [r \in Reqs |-> "new"]
  /\ hdata = [r \in Reqs |-> NoData]
  /\ hresp = [r \in Reqs |-> NoResponse]
  /\ nWorkers = 0
  /\ wpc = [w \in Workers |-> "unborn"]
  /\ wjob = [w \in Workers |-> 0]
  /\ wresult = [w \in Workers |-> NoResult]
  /\ ppc = [p \in Pollers |-> "idle"]
  /\ pid = [p \in Pollers |-> UnknownId]
  /\ presp = [p \in Pollers |-> "none"]
  /\ pstale = [p \in Pollers |-> FALSE]
  /\ polls = 0
  /\ claimants = {}
  /\ log = <<>>
  /\ provided = [r \in Reqs |-> NotProvided]
  /\ admitted = [r \in Reqs |-> "none"]
  /\ delivered = [r \in Reqs |-> 0]

\* requests being served by generate_logo
ActiveHandlers == {r \in Reqs : hpc[r] \notin {"new", "done"}}

\* threading.Thread(target=process_next_in_queue).start()
StartWorker ==
  /\ nWorkers < MaxWorkers
  /\ nWorkers' = nWorkers + 1

\* entering a `with processing_lock:` block
Acquire(t) ==
  /\ processing_lock = Free
  /\ processing_lock' = t

Release_Keep(t) ==
  /\ processing_lock = t
  /\ processing_lock' = t

\* leaving a `with processing_lock:` block, also by return
Release(t) ==
  /\ processing_lock = t
  /\ processing_lock' = Free

(* --------------------------- generate_logo ----------------------------- *)
\* lines 169-181: parse, validate, make the request id, take the lock
Submit(r, data) ==
  /\ hpc[r] = "new"
  /\ r = nextReq + 1
  /\ Cardinality(ActiveHandlers) < MaxActive
  /\ nextReq' = r
  /\ hdata' = [hdata EXCEPT ![r] = data]
  /\ IF ~data.isdict
     THEN \* data.get raises AttributeError: the handler at line 228
          /\ hpc' = [hpc EXCEPT ![r] = "done"]
          /\ hresp' = [hresp EXCEPT ![r] = Response(500, ErrorResult("Server error"), 0)]
          /\ UNCHANGED processing_lock
     ELSE IF FieldsMissing(data)
     THEN /\ hpc' = [hpc EXCEPT ![r] = "done"]
          /\ hresp' = [hresp EXCEPT ![r] =
                         Response(400, ErrorResult("Business name and Industry are required."), 0)]
          /\ UNCHANGED processing_lock
     ELSE /\ Acquire(H(r))
          /\ hpc' = [hpc EXCEPT ![r] = "admit"]
          /\ UNCHANGED hresp
  /\ UNCHANGED <<shared, wvars, pvars, hist>>

AlreadyGenerating_Inverted == ~is_generating

\* line 182
AlreadyGenerating == is_generating

\* lines 182-194, up to the end of the with block
HAdmit(r) ==
  /\ hpc[r] = "admit"
  /\ Release(H(r))
  /\ admitted' = [admitted EXCEPT ![r] = IF is_generating THEN "busy" ELSE "idle"]
  /\ IF AlreadyGenerating
     THEN /\ request_queue' = QueuePut(<<r, hdata[r]>>)
          /\ log' = Append(log, <<"put", r>>)
          /\ hresp' = [hresp EXCEPT ![r] = Response(202, NoResult, r)]
          /\ hpc' = [hpc EXCEPT ![r] = "done"]
          /\ UNCHANGED <<is_generating, claimants>>
     ELSE /\ is_generating' = TRUE
          /\ claimants' = claimants \cup {H(r)}
          /\ hpc' = [hpc EXCEPT ![r] = "gen"]
          /\ UNCHANGED <<request_queue, log, hresp>>
  /\ UNCHANGED <<request_results, nextReq, hdata, wvars, pvars,
                 provided, delivered>>

\* lines 196-219: the prompt, generate_images, the result, and the lock
\* taken in the finally block.  The prompt is built outside the inner try:
\* slogan.strip() on a non-string raises, and the handler at line 228
\* answers 500 without running the finally block
HGenerate(r, run) ==
  /\ hpc[r] = "gen"
  /\ IF HasStrip(hdata[r].slogan)
     THEN /\ provided' = [provided EXCEPT ![r] = Provided("handler", generate_images(run))]
          /\ hresp' = [hresp EXCEPT ![r] =
                         Response(ImmediateStatus(generate_images(run)),
                                  ImmediateResult(generate_images(run)), 0)]
          /\ Acquire(H(r))
          /\ hpc' = [hpc EXCEPT ![r] = "release"]
     ELSE /\ hresp' = [hresp EXCEPT ![r] = Response(500, ErrorResult("Server error"), 0)]
          /\ hpc' = [hpc EXCEPT ![r] = "done"]
          /\ UNCHANGED <<provided, processing_lock>>
  /\ UNCHANGED <<shared, nextReq, hdata, wvars, pvars,
                 claimants, log, admitted, delivered>>

\* lines 220-221
HRelease(r) ==
  /\ hpc[r] = "release"
  /\ Release(H(r))
  /\ is_generating' = FALSE
  /\ claimants' = claimants \ {H(r)}
  /\ hpc' = [hpc EXCEPT ![r] = "check"]
  /\ UNCHANGED <<request_queue, request_results, nextReq, hdata, hresp,
                 wvars, pvars, log, provided, admitted, delivered>>

\* lines 223-226
HCheck(r) ==
  /\ hpc[r] = "check"
  /\ IF ~QueueEmpty
     THEN /\ StartWorker
          /\ wpc' = [wpc EXCEPT ![nWorkers + 1] = "start"]
     ELSE UNCHANGED <<nWorkers, wpc>>
  /\ hpc' = [hpc EXCEPT ![r] = "done"]
  /\ UNCHANGED <<shared, processing_lock, nextReq, hdata, hresp,
                 wjob, wresult, pvars, hist>>

(* ----------------------- process_next_in_queue ------------------------- *)
\* line 116
WAcquire(w) ==
  /\ wpc[w] = "start"
  /\ Acquire(W(w))
  /\ wpc' = [wpc EXCEPT ![w] = "claim"]
  /\ UNCHANGED <<shared, hvars, nWorkers, wjob, wresult, pvars, hist>>

CanClaim_IgnoreFlag == ~QueueEmpty

CanClaim_IgnoreEmpty == ~is_generating

\* line 118
CanClaim == ~is_generating /\ ~QueueEmpty

\* lines 118-124.  request_queue.get() at line 121 blocks while the queue is
\* empty: the thread then waits inside the with block, the flag already set
WClaim(w) ==
  /\ wpc[w] = "claim"
  /\ IF CanClaim
     THEN IF QueueEmpty
          THEN /\ is_generating' = TRUE
               /\ claimants' = claimants \cup {W(w)}
               /\ wpc' = [wpc EXCEPT ![w] = "blocked"]
               /\ processing_lock = W(w)
               /\ UNCHANGED <<processing_lock, wjob, request_queue, log>>
          ELSE /\ Release(W(w))
               /\ is_generating' = TRUE
               /\ claimants' = claimants \cup {W(w)}
               /\ wjob' = [wjob EXCEPT ![w] = QueueGet.item[1]]
               /\ request_queue' = QueueGet.rest
               /\ log' = Append(log, <<"get", QueueGet.item[1]>>)
               /\ wpc' = [wpc EXCEPT ![w] = "gen"]
     ELSE /\ Release(W(w))
          /\ wpc' = [wpc EXCEPT ![w] = "done"]
          /\ UNCHANGED <<is_generating, claimants, wjob, request_queue, log>>
  /\ UNCHANGED <<request_results, hvars, nWorkers, wresult, pvars,
                 provided, admitted, delivered>>

\* lines 127-151: the prompt, generate_images, the result, and the lock
\* taken to store it.  The prompt is built outside the try: slogan.strip()
\* on a non-string raises and the thread ends there
WGenerate(w, run) ==
  /\ wpc[w] = "gen"
  /\ IF HasStrip(hdata[wjob[w]].slogan)
     THEN /\ provided' = [provided EXCEPT ![wjob[w]] = Provided("worker", generate_images(run))]
          /\ wresult' = [wresult EXCEPT ![w] = QueuedResult(generate_images(run))]
          /\ Acquire(W(w))
          /\ wpc' = [wpc EXCEPT ![w] = "store"]
     ELSE /\ wpc' = [wpc EXCEPT ![w] = "dead"]
          /\ UNCHANGED <<provided, wresult, processing_lock>>
  /\ UNCHANGED <<shared, hvars, nWorkers, wjob, pvars,
                 claimants, log, admitted, delivered>>

\* lines 153-154
WStore(w) ==
  /\ wpc[w] = "store"
  /\ Release(W(w))
  /\ request_results' = DictSet(request_results, wjob[w], wresult[w])
  /\ log' = Append(log, <<"store", wjob[w]>>)
  /\ is_generating' = FALSE
  /\ claimants' = claimants \ {W(w)}
  /\ wpc' = [wpc EXCEPT ![w] = "check"]
  /\ UNCHANGED <<request_queue, hvars, nWorkers, wjob, wresult, pvars,
                 provided, admitted, delivered>>

\* lines 158-159
WCheck(w) ==
  /\ wpc[w] = "check"
  /\ IF ~QueueEmpty
     THEN /\ StartWorker
          /\ wpc' = [wpc EXCEPT ![w] = "done", ![nWorkers + 1] = "start"]
     ELSE /\ wpc' = [wpc EXCEPT ![w] = "done"]
          /\ UNCHANGED nWorkers
  /\ UNCHANGED <<shared, processing_lock, hvars, wjob, wresult, pvars, hist>>

(* ---------------------------- check_status ----------------------------- *)
\* lines 234-239: a GET /check-status/<request_id> arrives and takes the lock
Poll(p, id) ==
  /\ ppc[p] \in {"idle", "done"}
  /\ polls < MaxPolls
  /\ polls' = polls + 1
  /\ Acquire(P(p))
  /\ ppc' = [ppc EXCEPT ![p] = "read"]
  /\ pid' = [pid EXCEPT ![p] = id]
  /\ presp' = [presp EXCEPT ![p] = "none"]
  /\ pstale' = [pstale EXCEPT ![p] = FALSE]
  /\ UNCHANGED <<shared, hvars, wvars, hist>>

ResultAvailable_IgnoresMissing(id) == TRUE

\* line 241: `if result:` on the value of request_results.get(request_id)
ResultAvailable(id) == DictGet(request_results, id).kind # "none"

\* lines 240-247
check_status(p) ==
  /\ ppc[p] = "read"
  /\ Release(P(p))
  /\ pstale' = [pstale EXCEPT ![p] = pid[p] \in Reqs /\ delivered[pid[p]] > 0]
  /\ IF ResultAvailable(pid[p])
     THEN /\ request_results' = DictDel(request_results, pid[p])
          /\ presp' = [presp EXCEPT ![p] = DictGet(request_results, pid[p]).kind]
          /\ delivered' = [delivered EXCEPT ![pid[p]] = @ + 1]
     ELSE /\ presp' = [presp EXCEPT ![p] = "pending"]
          /\ UNCHANGED <<request_results, delivered>>
  /\ ppc' = [ppc EXCEPT ![p] = "done"]
  /\ UNCHANGED <<request_queue, is_generating, hvars, wvars, pid, polls,
                 claimants, log, provided, admitted>>

HandlerStep ==
  \/ \E r \in Reqs : HAdmit(r)
  \/ \E r \in Reqs, run \in ProviderRuns : HGenerate(r, run)
  \/ \E r \in Reqs : HRelease(r)
  \/ \E r \in Reqs : HCheck(r)

WorkerStep ==
  \/ \E w \in Workers : WAcquire(w)
  \/ \E w \in Workers : WClaim(w)
  \/ \E w \in Workers, run \in ProviderRuns : WGenerate(w, run)
  \/ \E w \in Workers : WStore(w)
  \/ \E w \in Workers : WCheck(w)

PollStep ==
  \/ \E p \in Pollers, id \in PollIds : Poll(p, id)
  \/ \E p \in Pollers : check_status(p)

\* submissions and dispatching, no client polls
Next ==
  \/ \E r \in Reqs, data \in JsonBodies : Submit(r, data)
  \/ HandlerStep
  \/ WorkerStep

Spec == Init /\ [][Next]_vars

\* the same with clients polling /check-status, for fewer submissions, all
\* of them carrying business name and industry
NextPoll ==
  \/ \E r \in PollReqs, data \in ValidBodies : Submit(r, data)
  \/ HandlerStep
  \/ WorkerStep
  \/ PollStep

SpecPoll == Init /\ [][NextPoll]_vars

(* ======================================================================= *)
(* Properties                                                              *)
(* ======================================================================= *)
NoDup(s) == \A i, j \in 1..Len(s) : s[i] = s[j] => i = j
IsPrefix(s, t) == Len(s) <= Len(t) /\ \A i \in 1..Len(s) : s[i] = t[i]
QueuedIds == {request_queue[i][1] : i \in 1..Len(request_queue)}
Submitted(r) == hpc[r] # "new"
\* a submission with a JSON object carrying business name and industry
WellFormed(data) == data.isdict /\ Truthy(data.businessname) /\ Truthy(data.industry)

\* the contexts between their claim of is_generating and their release of it
Generating ==
  {H(r) : r \in {q \in Reqs : hpc[q] \in {"gen", "release"}}}
  \cup {W(w) : w \in {v \in Workers : wpc[v] \in {"gen", "store"}}}

\* no thread of the program is running
Quiescent ==
  /\ \A r \in Reqs : hpc[r] \in {"new", "done"}
  /\ \A w \in Workers : wpc[w] \in {"unborn", "done", "dead"}

\* C1: in every reachable state at most one handler or worker thread is
\* between claiming is_generating and releasing it, so no two jobs are ever
\* generating at the same time.
C1_AtMostOneGenerating == Cardinality(Generating) <= 1

\* a worker holds the lock at its claim test while a handler generates and
\* a job waits in the queue
C1_Witness ==
  \E r \in Reqs, w \in Workers :
    hpc[r] = "gen" /\ wpc[w] = "claim" /\ ~QueueEmpty

\* C2: every request placed in request_queue is eventually dequeued and has
\* a terminal result recorded; stated on finished runs: once no handler and
\* no worker thread is running, every queued request has had its result
\* stored in request_results.
C2_NoLostJobs ==
  Quiescent => \A r \in Range(enqOrder) : r \in Range(recOrder)

\* C3: requests leave request_queue in the order they entered it, and their
\* results are stored in request_results in that same order.
C3_FifoOrder ==
  /\ IsPrefix(deqOrder, enqOrder)
  /\ IsPrefix(recOrder, deqOrder)

\* requests 2, 3 and 4 were all queued while request 1 was generating, and
\* were then dequeued and recorded one after the other
C3_Witness ==
  /\ admitted[1] = "idle"
  /\ log = << <<"put", 2>>, <<"put", 3>>, <<"put", 4>>,
              <<"get", 2>>, <<"store", 2>>,
              <<"get", 3>>, <<"store", 3>>,
              <<"get", 4>>, <<"store", 4>> >>

C5_Original ==
  \A p \in Pollers :
    (ppc[p] = "done" /\ (pid[p] = UnknownId \/ pstale[p])) => presp[p] = "notfound"

\* C5 (amended): check_status on an id that was never issued, or on an id
\* whose result an earlier check_status already returned, answers with the
\* pending outcome; the code has no NotFound outcome.
C5_Amended ==
  \A p \in Pollers :
    (ppc[p] = "done" /\ (pid[p] = UnknownId \/ pstale[p])) => presp[p] = "pending"

C5_Witness ==
  \E p, q \in Pollers :
    /\ ppc[p] = "done" /\ pid[p] = UnknownId /\ presp[p] = "pending"
    /\ ppc[q] = "done" /\ pstale[q] /\ presp[q] = "pending"

\* C6: the result recorded for a queued job is handed to exactly one
\* check_status call: it stays in request_results from its recording until
\* the first poll for it, which removes it, and no second poll receives it.
C6_ExactlyOnce ==
  \A r \in Reqs :
    /\ delivered[r] <= 1
    /\ (r \in DOMAIN request_results) <=> (r \in Range(recOrder) /\ delivered[r] = 0)

\* two polls for the same job raced for the lock; one got the result, the
\* other the pending outcome
C6_Witness ==
  \E p, q \in Pollers :
    /\ p # q /\ pid[p] = pid[q] /\ pid[p] \in Range(recOrder)
    /\ ppc[p] = "done" /\ presp[p] = "error"
    /\ ppc[q] = "done" /\ presp[q] = "pending" /\ pstale[q]

\* C7: a failure while handling a job never stops dispatching: every thread
\* that claimed is_generating and has ended has released it, and a worker
\* that has ended with a job has recorded a result for it.
C7_FailureReleasesFlag ==
  /\ \A r \in Reqs : hpc[r] = "done" => H(r) \notin claimants
  /\ \A w \in Workers :
       wpc[w] \in {"done", "dead"} =>
         /\ W(w) \notin claimants
         /\ wjob[w] # 0 => wjob[w] \in Range(recOrder)

\* C8: whenever generate_images returned no image reference for a job, the
\* outcome produced for that job is an error, in the submitting handler and
\* in the worker alike; no success result carries an empty image list.
C8_EmptyIsFailure ==
  /\ \A r \in Reqs :
       (provided[r].by = "handler" /\ provided[r].urls = 0) =>
         hresp[r].code = 500 /\ hresp[r].body.kind = "error"
  /\ \A w \in Workers :
       (wpc[w] \in {"store", "check", "done"} /\ wjob[w] # 0
          /\ provided[wjob[w]].urls = 0) => wresult[w].kind = "error"
  /\ \A r \in DOMAIN request_results :
       provided[r].urls = 0 => request_results[r].kind = "error"
  /\ \A r \in Reqs : hresp[r].body.kind = "images" => hresp[r].body.n > 0

C8_Witness ==
  \E r, q \in Reqs :
    /\ provided[r] = Provided("handler", 0) /\ hresp[r].code = 500
    /\ provided[q] = Provided("worker", 0)
    /\ DictGet(request_results, q) =
         ErrorResult("Failed to generate images for queued request.")

\* C9: a submission without business name or industry is answered at once
\* with an error, is never admitted, queued or generated, and its handling
\* changes neither request_queue, is_generating, request_results nor the lock.
C9_Rejected(r) == Submitted(r) /\ ~WellFormed(hdata[r])

C9_RejectedState ==
  \A r \in Reqs :
    C9_Rejected(r) =>
      /\ hpc[r] = "done"
      /\ hresp[r].code \in {400, 500} /\ hresp[r].body.kind = "error"
      /\ hdata[r].isdict => hresp[r].code = 400
      /\ admitted[r] = "none" /\ provided[r].by = "none"
      /\ r \notin Range(enqOrder) /\ H(r) \notin claimants

C9_RejectStep ==
  \A r \in Reqs :
    (hpc[r] = "new" /\ hpc'[r] # "new" /\ ~WellFormed(hdata'[r])) =>
      UNCHANGED <<shared, processing_lock, provided, log>>

C9_ValidationRejects == []C9_RejectedState /\ [][C9_RejectStep]_vars

\* a rejected submission that arrived after a job that is waiting in the
\* queue of a busy server
C9_Witness ==
  \E r, q \in Reqs :
    /\ q < r /\ q \in QueuedIds /\ is_generating
    /\ C9_Rejected(r) /\ hdata[r].isdict /\ hresp[r].code = 400

\* C10: a job goes queued -> generating -> recorded once: a request id is
\* put in the queue, taken from it and given a result at most once each, in
\* that order, and once its result is recorded the job is neither in the
\* queue nor generating, also after a poll has consumed the result.
C10_ExactlyOnceTerminal ==
  /\ NoDup(enqOrder) /\ NoDup(deqOrder) /\ NoDup(recOrder)
  /\ Range(recOrder) \subseteq Range(deqOrder)
  /\ Range(deqOrder) \subseteq Range(enqOrder)
  /\ \A r \in Range(recOrder) :
       /\ r \notin QueuedIds
       /\ \A w \in Workers : wjob[w] = r => wpc[w] \in {"check", "done"}
       /\ delivered[r] > 0 => r \notin DOMAIN request_results

\* the result of a job was recorded, consumed by a poll, and polled again
C10_Witness ==
  \E r \in Range(recOrder), p \in Pollers :
    /\ delivered[r] = 1
    /\ ppc[p] = "done" /\ pid[p] = r /\ pstale[p]

\* the job a context is generating: its own request for a handler, the
\* dequeued one for a worker
StartedJobs ==
  {r \in Reqs : hpc[r] \in {"gen", "release"}}
  \cup {wjob[w] : w \in {v \in Workers : wpc[v] \in {"gen", "store"}}}

\* C11: no submission overtakes an earlier one: while a job is generating,
\* no request that was submitted before it is still waiting in request_queue
\* (request ids are numbered in the order of arrival).
C11_NoOvertaking ==
  \A c \in StartedJobs : \A b \in QueuedIds : c < b

\* C12: a check_status call for a job that is waiting in request_queue or is
\* being generated answers pending, and leaves request_queue, is_generating
\* and request_results as they were.
C12_InProgress(id) == id \in QueuedIds \/ id \in StartedJobs

C12_PollStep ==
  \A p \in Pollers :
    (ppc[p] = "read" /\ ppc'[p] = "done" /\ C12_InProgress(pid[p])) =>
      /\ presp'[p] = "pending"
      /\ UNCHANGED shared

C12_PendingWhileInProgress == [][C12_PollStep]_vars

\* the same queued job was polled twice, both answers were pending, and it
\* is still in the queue
C12_Witness ==
  \E p, q \in Pollers :
    /\ p # q /\ pid[p] = pid[q] /\ pid[p] \in QueuedIds
    /\ ppc[p] = "done" /\ presp[p] = "pending"
    /\ ppc[q] = "done" /\ presp[q] = "pending"

\* C13: the admission step of generate_logo runs holding processing_lock
\* and decides on is_generating: if it is True the request goes to the tail
\* of request_queue and is answered 202 with its id, the flag unchanged; if
\* it is False the flag is set, the queue is unchanged and the handler goes
\* on to generate the request itself.
C13_AdmitStep ==
  \A r \in Reqs :
    (hpc[r] = "admit" /\ hpc'[r] # "admit") =>
      /\ processing_lock = H(r)
      /\ IF is_generating
         THEN /\ request_queue' = request_queue \o << <<r, hdata[r]>> >>
              /\ hresp'[r] = Response(202, NoResult, r)
              /\ hpc'[r] = "done"
              /\ is_generating'
         ELSE /\ is_generating'
              /\ request_queue' = request_queue
              /\ hpc'[r] = "gen"
              /\ hresp'[r] = NoResponse

C13_AtomicAdmission == [][C13_AdmitStep]_vars

\* two requests were queued one behind the other while a third, admitted on
\* an idle server, generates in its own handler
C13_Witness ==
  \E r, a, b \in Reqs :
    /\ hpc[r] = "gen" /\ admitted[r] = "idle" /\ r \notin QueuedIds
    /\ a < b /\ admitted[a] = "busy" /\ admitted[b] = "busy"
    /\ Len(request_queue) = 2
    /\ request_queue[1][1] = a /\ request_queue[2][1] = b

\* C14 (first statement): whenever request_queue is non-empty and
\* is_generating is False, a started worker has not yet run its claim test,
\* or a handler or worker is about to run its queue check after its release.
C14_SomeoneWillLook ==
  (~QueueEmpty /\ ~is_generating) =>
    \/ \E w \in Workers : wpc[w] \in {"start", "claim"}
    \/ \E w \in Workers : wpc[w] = "check"
    \/ \E r \in Reqs : hpc[r] = "check"

\* C14: no queued job is stranded: the statement above, and, as its stated
\* equivalent, request_queue is empty whenever every handler and every
\* worker thread has finished.
C14_NoStrandedJob ==
  /\ C14_SomeoneWillLook
  /\ Quiescent => QueueEmpty

\* C15: every request id in request_queue belongs to a job that has not
\* started: it is in the queue once, it was never dequeued, no handler or
\* worker is generating it, and request_results has no entry for it.
C15_QueuedNotStarted ==
  /\ NoDup([i \in 1..Len(request_queue) |-> request_queue[i][1]])
  /\ \A id \in QueuedIds :
       /\ id \notin StartedJobs
       /\ id \notin Range(deqOrder)
       /\ id \notin DOMAIN request_results
       /\ \A w \in Workers : wjob[w] # id
       /\ hpc[id] = "done" /\ admitted[id] = "busy"

\* a job waits in the queue while a worker generates another one and the
\* result of a third is in request_results
C15_Witness ==
  /\ Len(request_queue) >= 1
  /\ \E w \in Workers : wpc[w] = "gen"
  /\ DOMAIN request_results # {}

\* C16: processing_lock is never held while generate_images executes: the
\* lock is held only inside the admission and release blocks of a handler,
\* the claim and store blocks of a worker and the body of check_status, so
\* a handler or worker that is generating does not hold it.
C16_LockNotHeldWhileGenerating ==
  /\ \A r \in Reqs :
       processing_lock = H(r) => hpc[r] \in {"admit", "release"}
  /\ \A w \in Workers :
       processing_lock = W(w) => wpc[w] \in {"claim", "store"}
  /\ \A p \in Pollers :
       processing_lock = P(p) => ppc[p] = "read"
  /\ \A r \in Reqs : hpc[r] = "gen" => processing_lock # H(r)
  /\ \A w \in Workers : wpc[w] = "gen" => processing_lock # W(w)

\* while a handler generates, a later submission has been put on the queue
\* and a check_status call holds the lock to read
C16_Witness ==
  \E r, q \in Reqs, p \in Pollers :
    /\ hpc[r] = "gen"
    /\ r < q /\ q \in QueuedIds
    /\ processing_lock = P(p)

\* C17: when generate_images returned at least one image reference for a
\* queued job, the result recorded for that job in request_results is a
\* success carrying the images.
C17_QueuedSuccess ==
  \A r \in DOMAIN request_results :
    (provided[r].by = "worker" /\ provided[r].urls > 0) =>
      /\ request_results[r].kind = "images"
      /\ request_results[r].n = provided[r].urls

\* C18: is_generating is True exactly when one handler or worker has claimed
\* it and not yet released it; it is never True with nobody left to reset it.
C18_FlagIffOneClaimant ==
  /\ is_generating <=> Cardinality(Generating) = 1
  /\ is_generating => ~Quiescent

\* C19: request_queue.get() never blocks: no worker is ever waiting in get()
\* on an empty queue, and so no thread sits on processing_lock for ever.
C19_GetNeverBlocks ==
  /\ \A w \in Workers : wpc[w] # "blocked"
  /\ \A w \in Workers :
       processing_lock = W(w) => wpc[w] \in {"claim", "store"}

\* a worker holds the lock at its claim test while the flag is False and the
\* queue is already empty: the emptiness test is what keeps it out of get()
C19_Witness ==
  \E w \in Workers :
    wpc[w] = "claim" /\ processing_lock = W(w) /\ QueueEmpty /\ ~is_generating

====
